---- MODULE Spec2Model ----
(***************************************************************************)
(* Model of the Plaid transaction synchronisation of budget-app            *)
(* (app/lib/plaid.server.ts, syncTransactions) together with the three     *)
(* tables it reads and writes (accounts, transactions, sync_cursors) and   *)
(* the provider's incremental-changes endpoint (transactionsSync).         *)
(*                                                                         *)
(* One step of the model is one awaited call of syncTransactions together  *)
(* with the synchronous code that follows it up to the next await.         *)
(***************************************************************************)
EXTENDS Integers, Sequences, FiniteSets, TLC

(***************************** bounds ***************************************)
\* most rows the transactions table may hold (inserts block at the cap)
MaxRows == 3
\* most pages the provider ever publishes for one access token
MaxPages == 2
\* largest absolute amount of the records given to determineCategory
MaxAmount == 2
\* most logins that succeed
MaxLogins == 2
\* most public tokens that are exchanged for an access token
MaxItems == 2

(***************************** constants ************************************)
\* `cursorData ? cursorData.cursor : null`: the null cursor ("full history")
NullCursor == 0

UserId == "u1"
NoTx == "none"      \* plaid_transaction_id of a manually entered row (NULL)
NoAcct == "none"    \* account_id of a manually entered row (NULL)
NoTok == "none"
NoPage == [added |-> <<>>, modified |-> <<>>, removed |-> <<>>,
           next_cursor |-> NullCursor, has_more |-> FALSE]
NoOp == [op |-> "none", tx |-> NoTx, tok |-> NoTok, n |-> 0]
NoSnapshot == {}    \* pageStart while no page is being applied

\* JavaScript values of the routes: undefined, null and strings are told
\* apart by ===
Undefined == [kind |-> "undefined", value |-> ""]
JsNull == [kind |-> "null", value |-> ""]
Str(s) == [kind |-> "string", value |-> s]

NoUser == "none"
NoToken == [user |-> NoUser, n |-> 0]
NoCookie == [signed |-> TRUE, access_token |-> NoToken]
NoResponse == [route |-> "none", result |-> "none", user |-> NoUser,
               key |-> JsNull, presented |-> NoCookie]
NoLink == [pc |-> "idle", user |-> NoUser, accessToken |-> NoTok,
           pending |-> <<>>, outcome |-> "none"]
NoForm == [transactionId |-> {}, date |-> {}, amount |-> {}, category |-> {},
           description |-> {}]
NoManual == [action |-> "none", user |-> NoUser, form |-> NoForm, result |-> "none"]

Tokens == {"k1", "k2"}

\* rows of the accounts table of the user: a1 and a3 share one access token
InitAccounts ==
  { [id |-> "a1", user_id |-> UserId, access_token |-> "k1",
     plaid_account_id |-> "p1", account_type |-> "depository"],
    [id |-> "a2", user_id |-> UserId, access_token |-> "k2",
     plaid_account_id |-> "p2", account_type |-> "credit"],
    [id |-> "a3", user_id |-> UserId, access_token |-> "k1",
     plaid_account_id |-> "p3", account_type |-> "investment"] }

\* the order in which the account rows were inserted and are read back
AccountOrder == <<"a1", "a2", "a3">>

\* a manually entered row (transactions page), present before any sync
ManualRow ==
  [id |-> 1, user_id |-> UserId, account_id |-> NoAcct,
   plaid_transaction_id |-> NoTx, date |-> "d0", amount |-> 7,
   category |-> "income", description |-> "manual"]

(************************* the provider (Plaid) *****************************)
\* transaction ids the provider may report for a token, in the order they
\* take inside one page, and the account a new transaction may be booked on:
\* "px" is an account that is not linked locally, "p2" reported for k1 is an
\* account id that locally belongs to the other token; both tokens use "t1"
TxOrder == <<"t2", "t1">>
ProviderTxIds(tok) == IF tok = "k1" THEN {"t1", "t2"} ELSE {"t1"}
ProviderAccts(tok, id) ==
  IF tok = "k1" THEN (IF id = "t1" THEN {"p1"} ELSE {"px", "p2"}) ELSE {"p2"}

\* pages the provider publishes for a token: the second institution has one
PagesOf(tok) == IF tok = "k1" THEN MaxPages ELSE 1

\* the two versions of a provider transaction: as first reported and as
\* reported after a modification
TxDate(v) == IF v = 1 THEN "d1" ELSE "d2"
TxAmount(v) == IF v = 1 THEN 50 ELSE 0 - 20
TxName(v) == IF v = 1 THEN "n1" ELSE "n2"
TxLabels(v) == IF v = 1 THEN <<"Food">> ELSE <<"Bank", "Transfer">>

\* the provider keeps a transaction as <<id, account, version>>; PlaidTx is
\* the Transaction object the response carries for it
Entry(id, acct, v) == <<id, acct, v>>

\* `category: Array<string> | null`: a nullable value is the empty set (null)
\* or the set of the one value it holds
Null == {}
Some(x) == {x}

PlaidTx(e) ==
  [transaction_id |-> e[1], account_id |-> e[2], date |-> TxDate(e[3]),
   amount |-> TxAmount(e[3]), name |-> TxName(e[3]),
   category |-> Some(TxLabels(e[3]))]

SeqRange(s) == { s[j] : j \in 1..Len(s) }

\* the provider's own view after a page: id -> [acct, v], "gone" when absent
Gone == [acct |-> NoAcct, v |-> 0]
LiveAfterPage(live, page) ==
  [ id \in DOMAIN live |->
      IF id \in SeqRange(page.removed) THEN Gone
      ELSE IF \E j \in 1..Len(page.added) : page.added[j][1] = id
        THEN LET e == CHOOSE t \in SeqRange(page.added) : t[1] = id
             IN [acct |-> e[2], v |-> e[3]]
      ELSE IF \E j \in 1..Len(page.modified) : page.modified[j][1] = id
        THEN [acct |-> live[id].acct, v |-> 3 - live[id].v]
      ELSE live[id] ]

RECURSIVE LiveAfter(_, _)
LiveAfter(tok, pages) ==
  IF pages = <<>> THEN [ id \in ProviderTxIds(tok) |-> Gone ]
  ELSE LiveAfterPage(LiveAfter(tok, SubSeq(pages, 1, Len(pages) - 1)),
                     pages[Len(pages)])

\* what the provider may do with one of its transactions in a new page
TxChoices(live, tok, id) ==
  IF live[id] = Gone
    THEN {<<"none", NoAcct>>} \cup { <<"add", a>> : a \in ProviderAccts(tok, id) }
    ELSE {<<"none", NoAcct>>, <<"mod", NoAcct>>, <<"rem", NoAcct>>}

IdsWith(ch, kind) == SelectSeq(TxOrder, LAMBDA id : id \in DOMAIN ch /\ ch[id][1] = kind)

PageOf(live, ch, pos, more) ==
  LET addIds == IdsWith(ch, "add")
      modIds == IdsWith(ch, "mod")
      remIds == IdsWith(ch, "rem")
  IN [added |-> [ j \in 1..Len(addIds) |-> Entry(addIds[j], ch[addIds[j]][2], 1) ],
      modified |-> [ j \in 1..Len(modIds) |->
                       Entry(modIds[j], live[modIds[j]].acct, 3 - live[modIds[j]].v) ],
      removed |-> remIds,
      next_cursor |-> pos,
      has_more |-> more]

\* the non-empty pages the provider may publish at log position pos
NewPages(tok, pages) ==
  LET live == LiveAfter(tok, pages)
      pos == Len(pages) + 1
      ids == ProviderTxIds(tok)
      all == UNION { TxChoices(live, tok, id) : id \in ids }
      choices == { ch \in [ids -> all] :
                     /\ \A id \in ids : ch[id] \in TxChoices(live, tok, id)
                     /\ \E id \in ids : ch[id][1] # "none" }
  IN { PageOf(live, ch, pos, more) : ch \in choices,
         more \in (IF pos < PagesOf(tok) THEN BOOLEAN ELSE {FALSE}) }

\* the response to "nothing new since this cursor"
CaughtUp(cur) ==
  [added |-> <<>>, modified |-> <<>>, removed |-> <<>>,
   next_cursor |-> cur, has_more |-> FALSE]

(************************* pure helpers of the code *************************)
\* Array.prototype.includes('Transfer'): some element is the string 'Transfer'
IncludesTransfer(labels) == \E j \in 1..Len(labels) : labels[j] = "Transfer"

\* variant of determineCategory: the account type is looked at first, the
\* labels only for the other account types
determineCategoryTypeFirst(tx, accountType) ==
  IF accountType = "depository" \/ accountType = "investment"
    THEN (IF tx.amount > 0 THEN "income" ELSE "spending")
  ELSE IF accountType = "credit"
    THEN (IF tx.amount > 0 THEN "spending" ELSE "income")
  ELSE IF \E labels \in tx.category : IncludesTransfer(labels) THEN "transfer"
  ELSE "spending"

\* variant of determineCategory: a zero amount counts as positive
determineCategoryZeroPositive(tx, accountType) ==
  IF \E labels \in tx.category : IncludesTransfer(labels) THEN "transfer"
  ELSE IF accountType = "depository" \/ accountType = "investment"
    THEN (IF tx.amount >= 0 THEN "income" ELSE "spending")
  ELSE IF accountType = "credit"
    THEN (IF tx.amount >= 0 THEN "spending" ELSE "income")
  ELSE "spending"

\* variant of determineCategory: every account type other than credit is
\* treated like a depository account
determineCategoryDefaultDepository(tx, accountType) ==
  IF \E labels \in tx.category : IncludesTransfer(labels) THEN "transfer"
  ELSE IF accountType = "credit"
    THEN (IF tx.amount > 0 THEN "spending" ELSE "income")
  ELSE (IF tx.amount > 0 THEN "income" ELSE "spending")

\* transaction.category && transaction.category.includes('Transfer') first,
\* then the sign of the amount read by the account type
determineCategory(tx, accountType) ==
  IF \E labels \in tx.category : IncludesTransfer(labels) THEN "transfer"
  ELSE IF accountType = "depository" \/ accountType = "investment"
    THEN (IF tx.amount > 0 THEN "income" ELSE "spending")
  ELSE IF accountType = "credit"
    THEN (IF tx.amount > 0 THEN "spending" ELSE "income")
  ELSE "spending"

(******************************* state ***************************************)
VARIABLES
  accountsTbl,   \* table accounts
  transactions,  \* table transactions
  sync_cursors,  \* table sync_cursors
  uniqueTxKey,   \* schema (not in the repository): is there a unique key on
                 \* transactions (account_id, plaid_transaction_id)?
  log,           \* provider: per access token, the pages published so far
  pc,            \* position of the running syncTransactions call, or "idle"
  accounts,      \* local `accounts` (line 143)
  accessTokens,  \* local `accessTokens` (line 150), in iteration order
  tokIdx,        \* index of the access token of the current iteration
  cursor,        \* local `cursor`
  hasMore,       \* local `hasMore`
  resp,          \* local `response.data` of the page being applied
  phase,         \* which of the three for-loops is running
  i,             \* index of the next record of that loop
  outcome,       \* how the last call ended, "running" while one runs
  fault,         \* the error the external call of the last step returned
  last,          \* the table operation of the last step and its row count
  applied,       \* history: per token, log positions whose page was applied in full
  synced,        \* history: tokens whose cursor this call has persisted
  failedTok,     \* history: the token whose iteration threw, if any
  pageStart,     \* history: the transactions table when the page being
                 \* applied was received
  requested,     \* history: the requests <<access token, cursor>> the running
                 \* call has sent to transactionsSync
  catTx,         \* determineCategory: argument `transaction`
  catType,       \* determineCategory: argument `accountType`
  catResult,     \* determineCategory: the value returned, "none" before the call
  env,           \* process.env: SYNC_KEY and SINGLE_USER_ID
  cookie,        \* the __session cookie the browser holds
  issued,        \* access tokens a login has stored in a session
  verifies,      \* access tokens that auth.getUser() accepts at present
  loggedOut,     \* history: the last session change was the logout action
  response,      \* the last request to a route and what the route answered
  link,          \* the running exchangePublicToken call
  nItems,        \* provider: number of items (access tokens) created so far
  manualResult,  \* the last updateTransaction / deleteTransaction request
  procs          \* overlapping runs of the per-token loop body: their locals

syncVars == <<accountsTbl, transactions, sync_cursors, uniqueTxKey, log, pc,
              accounts, accessTokens, tokIdx, cursor, hasMore, resp, phase, i,
              outcome, fault, last, applied, synced, failedTok, pageStart,
              requested>>

catVars == <<catTx, catType, catResult>>
webVars == <<env, cookie, issued, verifies, loggedOut, response>>
linkVars == <<link, nItems>>

\* the variables that syncTransactions does not touch
nonSyncVars == <<catVars, webVars, linkVars, manualResult, procs>>

vars == <<syncVars, nonSyncVars>>

tables == <<accountsTbl, transactions, sync_cursors, uniqueTxKey>>
locals == <<accounts, accessTokens, tokIdx, cursor, hasMore, resp, phase, i>>

\* what one call of syncTransactions holds, and the record kept of it
runVars == <<log, pc, locals, outcome, fault, last, applied, synced, failedTok,
             pageStart, requested>>

Errors == {"AccountLookupError", "ProviderError", "StorageError"}

curTok == IF pc = "idle" \/ tokIdx > Len(accessTokens) THEN NoTok ELSE accessTokens[tokIdx]

(************************** table operations ********************************)
\* .from('sync_cursors').select('cursor').eq(user_id).eq(access_token)
CursorRows(tbl, tok) == { r \in tbl : r.user_id = UserId /\ r.access_token = tok }

\* .single() yields data only for exactly one row; cursorData ? cursor : null
ReadCursorOf(tbl, tok) ==
  IF Cardinality(CursorRows(tbl, tok)) = 1
    THEN (CHOOSE r \in CursorRows(tbl, tok) : TRUE).cursor
    ELSE NullCursor

\* variant of UpsertCursor: a plain insert, the row of the pair is kept
UpsertCursorAddingRow(tbl, tok, cur) ==
  tbl \cup { [user_id |-> UserId, access_token |-> tok, cursor |-> cur] }

\* .upsert({user_id, access_token, cursor}, {onConflict: 'user_id,access_token'})
UpsertCursor(tbl, tok, cur) ==
  (tbl \ CursorRows(tbl, tok))
     \cup { [user_id |-> UserId, access_token |-> tok, cursor |-> cur] }

\* variant of FindAccount: falls back to the user's accounts when none matches
FindAccountOrAny(accts, plaidAccountId) ==
  IF \E a \in accts : a.plaid_account_id = plaidAccountId
    THEN { a \in accts : a.plaid_account_id = plaidAccountId }
    ELSE accts

\* accounts.find(a => a.plaid_account_id === tx.account_id)
FindAccount(accts, plaidAccountId) ==
  { a \in accts : a.plaid_account_id = plaidAccountId }

\* accounts.filter(a => a.access_token === accessToken).map(a => a.id)
AccountIdsOf(accts, tok) == { a.id : a \in { b \in accts : b.access_token = tok } }

FreshId(tbl) == CHOOSE n \in 1..(Cardinality(tbl) + 1) : \A r \in tbl : r.id # n

\* variant of InsertTx: the external transaction id is not stored
InsertTxWithoutExternalId(tbl, tx, account) ==
  tbl \cup { [id |-> FreshId(tbl), user_id |-> UserId, account_id |-> account.id,
              plaid_transaction_id |-> NoTx, date |-> tx.date,
              amount |-> tx.amount,
              category |-> determineCategory(tx, account.account_type),
              description |-> tx.name] }

\* .from('transactions').insert({...})
InsertTx(tbl, tx, account) ==
  tbl \cup { [id |-> FreshId(tbl), user_id |-> UserId, account_id |-> account.id,
              plaid_transaction_id |-> tx.transaction_id, date |-> tx.date,
              amount |-> tx.amount,
              category |-> determineCategory(tx, account.account_type),
              description |-> tx.name] }

\* rows hit by .eq('plaid_transaction_id', id).eq('account_id', account.id)
UpdateTargets(tbl, tx, account) ==
  { r \in tbl : r.plaid_transaction_id = tx.transaction_id /\ r.account_id = account.id }

\* .from('transactions').update({date, amount, category, description})
UpdateTx(tbl, tx, account) ==
  { IF r \in UpdateTargets(tbl, tx, account)
      THEN [r EXCEPT !.date = tx.date, !.amount = tx.amount,
                     !.category = determineCategory(tx, account.account_type),
                     !.description = tx.name]
      ELSE r : r \in tbl }

\* variant of DeleteTargets: the filter on account_id is missing
DeleteTargetsAnyAccount(tbl, txId, accountIds) ==
  { r \in tbl : r.plaid_transaction_id = txId }

\* rows hit by .eq('plaid_transaction_id', id).in('account_id', accountIds)
DeleteTargets(tbl, txId, accountIds) ==
  { r \in tbl : r.plaid_transaction_id = txId /\ r.account_id \in accountIds }

\* .from('transactions').delete()
DeleteTx(tbl, txId, accountIds) == tbl \ DeleteTargets(tbl, txId, accountIds)

\* does the insert of tx for the account hit the unique key, when the
\* schema has one? The key is the pair the update on line 199 finds rows by.
UniqueViolation(tbl, tx, account) ==
  /\ uniqueTxKey
  /\ \E r \in tbl : /\ r.plaid_transaction_id = tx.transaction_id
                    /\ r.account_id = account.id

(************************** the provider call *******************************)
\* plaidClient.transactionsSync({access_token, cursor}): the pages this call
\* may return; a page already published is returned again unchanged
SyncResponses(pages, tok, cur) ==
  IF cur < Len(pages) THEN { pages[cur + 1] }
  ELSE IF Len(pages) > 0 /\ pages[Len(pages)].has_more THEN NewPages(tok, pages)
  ELSE IF Len(pages) < PagesOf(tok) THEN NewPages(tok, pages) \cup { CaughtUp(cur) }
  ELSE { CaughtUp(cur) }

(***************************** control flow *********************************)
\* variant of NextPos: the loop over the removed records is never entered
NextPosSkippingRemoved(page, ph, idx) ==
  IF ph = "added" /\ idx <= Len(page.added) THEN [phase |-> "added", i |-> idx]
  ELSE IF ph \in {"added", "modified"} /\ (IF ph = "modified" THEN idx ELSE 1) <= Len(page.modified)
    THEN [phase |-> "modified", i |-> IF ph = "modified" THEN idx ELSE 1]
  ELSE [phase |-> "end", i |-> 1]

\* the loop position after the record before (ph, idx): the next record of
\* the three for-loops of one page, or "end" when the page is exhausted
NextPos(page, ph, idx) ==
  IF ph = "added" /\ idx <= Len(page.added) THEN [phase |-> "added", i |-> idx]
  ELSE IF ph \in {"added", "modified"} /\ (IF ph = "modified" THEN idx ELSE 1) <= Len(page.modified)
    THEN [phase |-> "modified", i |-> IF ph = "modified" THEN idx ELSE 1]
  ELSE IF (IF ph = "removed" THEN idx ELSE 1) <= Len(page.removed)
    THEN [phase |-> "removed", i |-> IF ph = "removed" THEN idx ELSE 1]
  ELSE [phase |-> "end", i |-> 1]

IsLogPage(page) == page.added # <<>> \/ page.modified # <<>> \/ page.removed # <<>>

\* history: no record of the page is left once the loops stand at (ph, idx)
AllDone(page, ph, idx) ==
  /\ ph = "added" => idx > Len(page.added) /\ page.modified = <<>> /\ page.removed = <<>>
  /\ ph = "modified" => idx > Len(page.modified) /\ page.removed = <<>>
  /\ ph = "removed" => idx > Len(page.removed)

\* history: the pages applied in full, after the loops have reached (ph, idx)
AppliedAfter(page, ph, idx) ==
  IF IsLogPage(page) /\ AllDone(page, ph, idx)
    THEN [applied EXCEPT ![curTok] = @ \cup {page.next_cursor}]
    ELSE applied

\* variant of Continue: the cursor is saved at the end of every page
ContinueSavingEachPage(page, ph, idx) ==
  LET np == NextPos(page, ph, idx)
  IN /\ applied' = AppliedAfter(page, ph, idx)
     /\ IF np.phase # "end"
          THEN /\ pc' = "apply"
               /\ resp' = page
               /\ phase' = np.phase
               /\ i' = np.i
               /\ pageStart' = IF pc = "fetch" THEN transactions ELSE pageStart
               /\ UNCHANGED <<cursor, hasMore, sync_cursors>>
          ELSE /\ cursor' = page.next_cursor
               /\ hasMore' = page.has_more
               /\ sync_cursors' = UpsertCursor(sync_cursors, curTok, page.next_cursor)
               /\ pc' = IF page.has_more THEN "fetch" ELSE "persist"
               /\ resp' = NoPage
               /\ phase' = "none"
               /\ i' = 1
               /\ pageStart' = NoSnapshot

\* variant of Continue: the cursor of a page without records is dropped
ContinueDroppingEmptyPageCursor(page, ph, idx) ==
  LET np == NextPos(page, ph, idx)
  IN /\ applied' = AppliedAfter(page, ph, idx)
     /\ sync_cursors' = sync_cursors
     /\ IF np.phase # "end"
          THEN /\ pc' = "apply"
               /\ resp' = page
               /\ phase' = np.phase
               /\ i' = np.i
               /\ pageStart' = IF pc = "fetch" THEN transactions ELSE pageStart
               /\ UNCHANGED <<cursor, hasMore>>
          ELSE /\ cursor' = IF IsLogPage(page) THEN page.next_cursor ELSE NullCursor
               /\ hasMore' = page.has_more
               /\ pc' = IF page.has_more THEN "fetch" ELSE "persist"
               /\ resp' = NoPage
               /\ phase' = "none"
               /\ i' = 1
               /\ pageStart' = NoSnapshot

\* variant of Continue: line 214 is missing, the cursor stays as it was read
ContinueKeepingCursor(page, ph, idx) ==
  LET np == NextPos(page, ph, idx)
  IN /\ applied' = AppliedAfter(page, ph, idx)
     /\ sync_cursors' = sync_cursors
     /\ IF np.phase # "end"
          THEN /\ pc' = "apply"
               /\ resp' = page
               /\ phase' = np.phase
               /\ i' = np.i
               /\ pageStart' = IF pc = "fetch" THEN transactions ELSE pageStart
               /\ UNCHANGED <<cursor, hasMore>>
          ELSE /\ cursor' = cursor
               /\ hasMore' = page.has_more
               /\ pc' = IF page.has_more THEN "fetch" ELSE "persist"
               /\ resp' = NoPage
               /\ phase' = "none"
               /\ i' = 1
               /\ pageStart' = NoSnapshot

\* variant of Continue: line 215 is missing, hasMore stays true
ContinueAlwaysMore(page, ph, idx) ==
  LET np == NextPos(page, ph, idx)
  IN /\ applied' = AppliedAfter(page, ph, idx)
     /\ sync_cursors' = sync_cursors
     /\ IF np.phase # "end"
          THEN /\ pc' = "apply"
               /\ resp' = page
               /\ phase' = np.phase
               /\ i' = np.i
               /\ pageStart' = IF pc = "fetch" THEN transactions ELSE pageStart
               /\ UNCHANGED <<cursor, hasMore>>
          ELSE /\ cursor' = page.next_cursor
               /\ hasMore' = TRUE
               /\ pc' = "fetch"
               /\ resp' = NoPage
               /\ phase' = "none"
               /\ i' = 1
               /\ pageStart' = NoSnapshot

\* continue the while-loop body at (ph, idx); at the end of the page run
\* lines 214-215 and leave the loop when has_more is false; nothing is
\* written to sync_cursors inside the loop
Continue(page, ph, idx) ==
  LET np == NextPos(page, ph, idx)
  IN /\ applied' = AppliedAfter(page, ph, idx)
     /\ sync_cursors' = sync_cursors
     /\ IF np.phase # "end"
          THEN /\ pc' = "apply"
               /\ resp' = page
               /\ phase' = np.phase
               /\ i' = np.i
               /\ pageStart' = IF pc = "fetch" THEN transactions ELSE pageStart
               /\ UNCHANGED <<cursor, hasMore>>
          ELSE /\ cursor' = page.next_cursor
               /\ hasMore' = page.has_more
               /\ pc' = IF page.has_more THEN "fetch" ELSE "persist"
               /\ resp' = NoPage
               /\ phase' = "none"
               /\ i' = 1
               /\ pageStart' = NoSnapshot

\* `throw new Error(...)`: nothing in syncTransactions catches it
Throw(kind) ==
  /\ pc' = "idle"
  /\ outcome' = kind
  /\ failedTok' = curTok
  /\ accounts' = {}
  /\ accessTokens' = <<>>
  /\ tokIdx' = 1
  /\ cursor' = NullCursor
  /\ hasMore' = FALSE
  /\ resp' = NoPage
  /\ phase' = "none"
  /\ i' = 1
  /\ pageStart' = NoSnapshot
  /\ requested' = {}

\* syncTransactions returns
Return ==
  /\ pc' = "idle"
  /\ outcome' = "ok"
  /\ accounts' = {}
  /\ accessTokens' = <<>>
  /\ tokIdx' = 1
  /\ cursor' = NullCursor
  /\ hasMore' = FALSE
  /\ resp' = NoPage
  /\ phase' = "none"
  /\ i' = 1
  /\ pageStart' = NoSnapshot
  /\ requested' = {}

\* accounts.map(a => a.access_token): the rows come in the order they were
\* inserted (AccountOrder)
TokensOfRows(accts) ==
  LET ids == SelectSeq(AccountOrder, LAMBDA id : \E a \in accts : a.id = id)
  IN [ j \in 1..Len(ids) |-> (CHOOSE a \in accts : a.id = ids[j]).access_token ]

\* variant of Dedupe: the list is taken as it is, one entry per account row
DedupeNothing(seq) == seq

\* [...new Set(seq)]: the distinct elements in the order of first occurrence
RECURSIVE Dedupe(_)
Dedupe(seq) ==
  IF seq = <<>> THEN <<>>
  ELSE LET front == Dedupe(SubSeq(seq, 1, Len(seq) - 1))
           x == seq[Len(seq)]
       IN IF \E j \in 1..Len(front) : front[j] = x THEN front ELSE Append(front, x)

(******************************* Init ****************************************)
\* the store after the accounts were linked and before the first sync, no
\* call running
IdleStore ==
  /\ accountsTbl = InitAccounts
  /\ transactions = {ManualRow}
  /\ sync_cursors = {}
  /\ log = [t \in Tokens |-> <<>>]
  /\ pc = "idle"
  /\ accounts = {}
  /\ accessTokens = <<>>
  /\ tokIdx = 1
  /\ cursor = NullCursor
  /\ hasMore = FALSE
  /\ resp = NoPage
  /\ phase = "none"
  /\ i = 1
  /\ outcome = "none"
  /\ fault = "none"
  /\ last = NoOp
  /\ applied = [t \in Tokens |-> {}]
  /\ synced = {}
  /\ failedTok = NoTok
  /\ pageStart = NoSnapshot
  /\ requested = {}

\* no call of determineCategory on its own
CatIdle ==
  /\ catTx = PlaidTx(Entry("t1", "p1", 1))
  /\ catType = "depository"
  /\ catResult = "none"

\* no request to a route yet, nobody logged in
WebIdle ==
  /\ env = [SYNC_KEY |-> Undefined, SINGLE_USER_ID |-> Undefined]
  /\ cookie = NoCookie
  /\ issued = {}
  /\ verifies = {}
  /\ loggedOut = FALSE
  /\ response = NoResponse

\* no exchangePublicToken call
LinkIdle ==
  /\ link = NoLink
  /\ nItems = 0

\* no request to the transactions page
ManualIdle == manualResult = NoManual

\* no overlapping runs
ProcsIdle == procs = <<>>

Init ==
  /\ IdleStore
  /\ uniqueTxKey \in BOOLEAN
  /\ CatIdle
  /\ WebIdle
  /\ LinkIdle
  /\ ManualIdle
  /\ ProcsIdle

(****************************** actions **************************************)
\* variant of StartSync: the error of the account read is not looked at and
\* the call goes on with an empty account list
StartSyncUnchecked ==
  /\ pc = "idle"
  /\ requested' = {}
  /\ UNCHANGED <<pageStart, nonSyncVars>>
  /\ synced' = {}
  /\ last' = NoOp
  /\ failedTok' = NoTok
  /\ UNCHANGED <<tables, log, applied>>
  /\ \/ /\ fault' = "accountsRead"
        /\ pc' = "idle"
        /\ outcome' = "ok"
        /\ UNCHANGED locals
     \/ /\ fault' = "none"
        /\ accounts' = { a \in accountsTbl : a.user_id = UserId }
        /\ accessTokens' = Dedupe(TokensOfRows(accounts'))
        /\ tokIdx' = 1
        /\ pc' = "readCursor"
        /\ outcome' = "running"
        /\ UNCHANGED <<cursor, hasMore, resp, phase, i>>

\* lines 141-150: read the accounts of the user; throw when the read fails,
\* otherwise deduplicate the access tokens and enter the for-loop
StartSync ==
  /\ pc = "idle"
  /\ requested' = {}
  /\ UNCHANGED <<pageStart, nonSyncVars>>
  /\ synced' = {}
  /\ last' = NoOp
  /\ UNCHANGED <<tables, log, applied>>
  /\ \/ /\ fault' = "accountsRead"
        /\ pc' = "idle"
        /\ outcome' = "AccountLookupError"
        /\ failedTok' = NoTok
        /\ UNCHANGED locals
     \/ /\ fault' = "none"
        /\ failedTok' = NoTok
        /\ accounts' = { a \in accountsTbl : a.user_id = UserId }
        /\ accessTokens' = Dedupe(TokensOfRows(accounts'))
        /\ tokIdx' = 1
        /\ IF Len(accessTokens') = 0
             THEN /\ pc' = "idle"
                  /\ outcome' = "ok"
             ELSE /\ pc' = "readCursor"
                  /\ outcome' = "running"
        /\ UNCHANGED <<cursor, hasMore, resp, phase, i>>

\* variant of ReadCursor: the stored cursor is not used, every run starts
\* from the null cursor
ReadCursorFromNull ==
  /\ pc = "readCursor"
  /\ UNCHANGED <<pageStart, requested, nonSyncVars>>
  /\ fault' \in {"none", "cursorRead"}
  /\ cursor' = NullCursor
  /\ hasMore' = TRUE
  /\ pc' = "fetch"
  /\ last' = NoOp
  /\ UNCHANGED <<tables, log, accounts, accessTokens, tokIdx, resp, phase, i,
                 outcome, applied, synced, failedTok>>

\* lines 153-162: read the persisted cursor of the current token; the error
\* of the read is not looked at, so a failed read gives the null cursor
ReadCursor ==
  /\ pc = "readCursor"
  /\ UNCHANGED <<pageStart, requested, nonSyncVars>>
  /\ \/ /\ fault' = "none"
        /\ cursor' = ReadCursorOf(sync_cursors, curTok)
     \/ /\ fault' = "cursorRead"
        /\ cursor' = NullCursor
  /\ hasMore' = TRUE
  /\ pc' = "fetch"
  /\ last' = NoOp
  /\ UNCHANGED <<tables, log, accounts, accessTokens, tokIdx, resp, phase, i,
                 outcome, applied, synced, failedTok>>

\* variant of FetchPage: a failed provider call is tried again
FetchPageRetrying ==
  /\ pc = "fetch"
  /\ hasMore
  /\ UNCHANGED nonSyncVars
  /\ last' = NoOp
  /\ UNCHANGED <<accountsTbl, transactions, uniqueTxKey, synced>>
  /\ \/ /\ fault' = "provider"
        /\ requested' = requested \cup {<<curTok, cursor>>}
        /\ UNCHANGED <<log, applied, sync_cursors, pc, locals, outcome, failedTok,
                       pageStart>>
     \/ /\ fault' = "none"
        /\ \E page \in SyncResponses(log[curTok], curTok, cursor) :
             /\ log' = IF cursor = Len(log[curTok]) /\ IsLogPage(page)
                         THEN [log EXCEPT ![curTok] = Append(@, page)]
                         ELSE log
             /\ Continue(page, "added", 1)
        /\ requested' = requested \cup {<<curTok, cursor>>}
        /\ UNCHANGED <<accounts, accessTokens, tokIdx, outcome, failedTok>>

\* lines 164-170: one transactionsSync call; a failed call throws
FetchPage ==
  /\ pc = "fetch"
  /\ hasMore
  /\ UNCHANGED nonSyncVars
  /\ last' = NoOp
  /\ UNCHANGED <<accountsTbl, transactions, uniqueTxKey, synced>>
  /\ \/ /\ fault' = "provider"
        /\ Throw("ProviderError")
        /\ UNCHANGED <<log, applied, sync_cursors>>
     \/ /\ fault' = "none"
        /\ \E page \in SyncResponses(log[curTok], curTok, cursor) :
             /\ log' = IF cursor = Len(log[curTok]) /\ IsLogPage(page)
                         THEN [log EXCEPT ![curTok] = Append(@, page)]
                         ELSE log
             /\ Continue(page, "added", 1)
        /\ requested' = requested \cup {<<curTok, cursor>>}
        /\ UNCHANGED <<accounts, accessTokens, tokIdx, outcome, failedTok>>

\* lines 173-187: one iteration of `for (const tx of added)`
ApplyAdded ==
  /\ pc = "apply"
  /\ phase = "added"
  /\ UNCHANGED nonSyncVars
  /\ UNCHANGED <<accountsTbl, uniqueTxKey, log, synced>>
  /\ LET tx == PlaidTx(resp.added[i])
         found == FindAccount(accounts, tx.account_id)
     IN IF found = {}
          THEN /\ fault' = "none"
               /\ last' = [op |-> "skip", tx |-> tx.transaction_id, tok |-> curTok, n |-> 0]
               /\ Continue(resp, "added", i + 1)
               /\ UNCHANGED <<transactions, accounts, accessTokens, tokIdx, outcome,
                              failedTok, requested>>
          ELSE LET account == CHOOSE a \in found : TRUE
               IN \/ /\ fault' = "dbWrite"
                     /\ last' = NoOp
                     /\ Throw("StorageError")
                     /\ UNCHANGED <<transactions, applied, sync_cursors>>
                  \/ /\ UniqueViolation(transactions, tx, account)
                     /\ fault' = "uniqueViolation"
                     /\ last' = NoOp
                     /\ Throw("StorageError")
                     /\ UNCHANGED <<transactions, applied, sync_cursors>>
                  \/ /\ ~UniqueViolation(transactions, tx, account)
                     /\ Cardinality(transactions) < MaxRows
                     /\ fault' = "none"
                     /\ transactions' = InsertTx(transactions, tx, account)
                     /\ last' = [op |-> "insert", tx |-> tx.transaction_id, tok |-> curTok, n |-> 1]
                     /\ Continue(resp, "added", i + 1)
                     /\ UNCHANGED <<accounts, accessTokens, tokIdx, outcome, failedTok, requested>>

\* lines 190-201: one iteration of `for (const tx of modified)`
ApplyModified ==
  /\ pc = "apply"
  /\ phase = "modified"
  /\ UNCHANGED nonSyncVars
  /\ UNCHANGED <<accountsTbl, uniqueTxKey, log, synced>>
  /\ LET tx == PlaidTx(resp.modified[i])
         found == FindAccount(accounts, tx.account_id)
     IN IF found = {}
          THEN /\ fault' = "none"
               /\ last' = [op |-> "skip", tx |-> tx.transaction_id, tok |-> curTok, n |-> 0]
               /\ Continue(resp, "modified", i + 1)
               /\ UNCHANGED <<transactions, accounts, accessTokens, tokIdx, outcome,
                              failedTok, requested>>
          ELSE LET account == CHOOSE a \in found : TRUE
               IN \/ /\ fault' = "dbWrite"
                     /\ last' = NoOp
                     /\ Throw("StorageError")
                     /\ UNCHANGED <<transactions, applied, sync_cursors>>
                  \/ /\ fault' = "none"
                     /\ transactions' = UpdateTx(transactions, tx, account)
                     /\ last' = [op |-> "update", tx |-> tx.transaction_id, tok |-> curTok,
                                 n |-> Cardinality(UpdateTargets(transactions, tx, account))]
                     /\ Continue(resp, "modified", i + 1)
                     /\ UNCHANGED <<accounts, accessTokens, tokIdx, outcome, failedTok, requested>>

\* variant of ApplyRemoved: a delete that hits no row is taken for an error
ApplyRemovedExpectingRow ==
  /\ pc = "apply"
  /\ phase = "removed"
  /\ UNCHANGED nonSyncVars
  /\ UNCHANGED <<accountsTbl, uniqueTxKey, log, synced>>
  /\ LET txId == resp.removed[i]
         accountIds == AccountIdsOf(accounts, curTok)
     IN \/ /\ fault' = "dbWrite"
           /\ last' = NoOp
           /\ Throw("StorageError")
           /\ UNCHANGED <<transactions, applied, sync_cursors>>
        \/ /\ DeleteTargets(transactions, txId, accountIds) = {}
           /\ fault' = "noRows"
           /\ last' = NoOp
           /\ Throw("StorageError")
           /\ UNCHANGED <<transactions, applied, sync_cursors>>
        \/ /\ DeleteTargets(transactions, txId, accountIds) # {}
           /\ fault' = "none"
           /\ transactions' = DeleteTx(transactions, txId, accountIds)
           /\ last' = [op |-> "delete", tx |-> txId, tok |-> curTok,
                       n |-> Cardinality(DeleteTargets(transactions, txId, accountIds))]
           /\ Continue(resp, "removed", i + 1)
           /\ UNCHANGED <<accounts, accessTokens, tokIdx, outcome, failedTok, requested>>

\* lines 204-211: one iteration of `for (const removedTx of removed)`
ApplyRemoved ==
  /\ pc = "apply"
  /\ phase = "removed"
  /\ UNCHANGED nonSyncVars
  /\ UNCHANGED <<accountsTbl, uniqueTxKey, log, synced>>
  /\ LET txId == resp.removed[i]
         accountIds == AccountIdsOf(accounts, curTok)
     IN \/ /\ fault' = "dbWrite"
           /\ last' = NoOp
           /\ Throw("StorageError")
           /\ UNCHANGED <<transactions, applied, sync_cursors>>
        \/ /\ fault' = "none"
           /\ transactions' = DeleteTx(transactions, txId, accountIds)
           /\ last' = [op |-> "delete", tx |-> txId, tok |-> curTok,
                       n |-> Cardinality(DeleteTargets(transactions, txId, accountIds))]
           /\ Continue(resp, "removed", i + 1)
           /\ UNCHANGED <<accounts, accessTokens, tokIdx, outcome, failedTok, requested>>

\* lines 218-225: save the final cursor, then the next token or return
PersistCursor ==
  /\ pc = "persist"
  /\ ~hasMore
  /\ UNCHANGED nonSyncVars
  /\ last' = NoOp
  /\ UNCHANGED <<accountsTbl, transactions, uniqueTxKey, log, applied>>
  /\ \/ /\ fault' = "dbWrite"
        /\ Throw("StorageError")
        /\ UNCHANGED <<sync_cursors, synced>>
     \/ /\ fault' = "none"
        /\ sync_cursors' = UpsertCursor(sync_cursors, curTok, cursor)
        /\ synced' = synced \cup {curTok}
        /\ UNCHANGED failedTok
        /\ IF tokIdx = Len(accessTokens)
             THEN Return
             ELSE /\ tokIdx' = tokIdx + 1
                  /\ pc' = "readCursor"
                  /\ UNCHANGED <<accounts, accessTokens, cursor, hasMore, resp,
                                 phase, i, outcome, pageStart, requested>>

\* the server process dies while a call is running
Crash ==
  /\ pc # "idle"
  /\ UNCHANGED nonSyncVars
  /\ pc' = "idle"
  /\ outcome' = "crashed"
  /\ fault' = "none"
  /\ last' = NoOp
  /\ failedTok' = NoTok
  /\ accounts' = {}
  /\ accessTokens' = <<>>
  /\ tokIdx' = 1
  /\ cursor' = NullCursor
  /\ hasMore' = FALSE
  /\ resp' = NoPage
  /\ phase' = "none"
  /\ i' = 1
  /\ pageStart' = NoSnapshot
  /\ requested' = {}
  /\ synced' = {}
  /\ UNCHANGED <<tables, log, applied>>

Next ==
  \/ StartSync
  \/ ReadCursor
  \/ FetchPage
  \/ ApplyAdded
  \/ ApplyModified
  \/ ApplyRemoved
  \/ PersistCursor
  \/ Crash

Spec == Init /\ [][Next]_vars

\* a call that has started takes its next step: each await of the call
\* completes, and while a call can go on without an error it is not held up
\* by errors for ever; an insert into a full table completes with an error
FairSpec ==
  /\ Spec
  /\ WF_vars(ReadCursor /\ fault' = "none")
  /\ WF_vars(FetchPage /\ fault' = "none")
  /\ WF_vars(ApplyAdded)
  /\ WF_vars(ApplyModified /\ fault' = "none")
  /\ WF_vars(ApplyRemoved /\ fault' = "none")
  /\ WF_vars(PersistCursor /\ fault' = "none")

(********************* determineCategory on its own **************************)
\* label lists a provider record may carry: null, empty, without and with
\* the label 'Transfer', and with a label that only has Transfer as a part
CategoryInputs ==
  { Null, Some(<<>>), Some(<<"Food">>), Some(<<"Transfer">>),
    Some(<<"Transfer", "Debit">>), Some(<<"Food", "Transfer">>),
    Some(<<"Bank Fees", "Wire Transfer">>), Some(<<"Payment", "Credit Card">>) }

AmountInputs == (0 - MaxAmount)..MaxAmount

\* accounts.account_type as Plaid reports it, and an empty string
AccountTypeInputs == {"depository", "investment", "credit", "loan", "other", ""}

InitCategory ==
  /\ IdleStore
  /\ uniqueTxKey = FALSE
  /\ WebIdle
  /\ LinkIdle
  /\ ManualIdle
  /\ ProcsIdle
  /\ \E c \in CategoryInputs, a \in AmountInputs :
       catTx = [transaction_id |-> "t1", account_id |-> "p1", date |-> "d1",
                amount |-> a, name |-> "n1", category |-> c]
  /\ catType \in AccountTypeInputs
  /\ catResult = "none"

\* one call determineCategory(transaction, accountType)
Classify ==
  /\ catResult = "none"
  /\ catResult' = determineCategory(catTx, catType)
  /\ UNCHANGED <<syncVars, catTx, catType, webVars, linkVars, manualResult, procs>>

NextCategory == Classify

SpecCategory == InitCategory /\ [][NextCategory]_vars

(********************* sessions and the sync route ***************************)
Users == {"u1", "u2"}

\* values of process.env.SYNC_KEY and process.env.SINGLE_USER_ID
SyncKeyInputs == {Undefined, Str(""), Str("s3cret")}
SingleUserInputs == {Undefined, Str(""), Str("u1")}

\* url.searchParams.get('key'): null without the parameter
KeyInputs == {JsNull, Str(""), Str("s3cret"), Str("guess")}

\* cookies a request may carry: the one the browser holds, one a session was
\* committed to earlier, or one that was not signed by this server
Cookies ==
  {cookie} \cup { [signed |-> b, access_token |-> t] : b \in BOOLEAN, t \in issued }
           \cup { [signed |-> FALSE, access_token |-> [user |-> u, n |-> 1]] : u \in Users }

\* getSession(cookieHeader).get('access_token'): a cookie whose signature
\* does not verify gives an empty session
getSession(c) == IF c.signed THEN c.access_token ELSE NoToken

\* variant of getSupabase: the token is not verified with auth.getUser()
getSupabaseUnverified(c) == getSession(c).user

\* getSupabase(request).user: null without a token and when auth.getUser()
\* does not accept the token
getSupabase(c) ==
  LET token == getSession(c)
  IN IF token = NoToken THEN NoUser
     ELSE IF token \in verifies THEN token.user
     ELSE NoUser

\* variant of KeyMatches: == instead of ===, null equals undefined
KeyMatchesLoosely(key, syncKey) ==
  \/ key = syncKey
  \/ key.kind \in {"null", "undefined"} /\ syncKey.kind \in {"null", "undefined"}

\* key === process.env.SYNC_KEY
KeyMatches(key, syncKey) == key = syncKey

\* !userId is false: the value is a non-empty string
Truthy(v) == v.kind = "string" /\ v.value # ""

InitWeb ==
  /\ IdleStore
  /\ uniqueTxKey = FALSE
  /\ CatIdle
  /\ LinkIdle
  /\ ManualIdle
  /\ ProcsIdle
  /\ env \in [SYNC_KEY : SyncKeyInputs, SINGLE_USER_ID : SingleUserInputs]
  /\ cookie = NoCookie
  /\ issued = {}
  /\ verifies = {}
  /\ loggedOut = FALSE
  /\ response = NoResponse

notWeb == <<syncVars, catVars, linkVars, manualResult, procs>>

\* the login action: signInWithPassword fails, or the access token of the
\* new Supabase session is stored in the session and committed to the cookie
Login ==
  /\ UNCHANGED <<notWeb, env>>
  /\ \E c \in Cookies, u \in Users :
       \/ /\ response' = [route |-> "login", result |-> "error", user |-> NoUser,
                           key |-> JsNull, presented |-> c]
          /\ UNCHANGED <<cookie, issued, verifies, loggedOut>>
       \/ /\ Cardinality(issued) < MaxLogins
          /\ LET token == [user |-> u, n |-> Cardinality(issued) + 1]
             IN /\ issued' = issued \cup {token}
                /\ verifies' = verifies \cup {token}
                /\ cookie' = [signed |-> TRUE, access_token |-> token]
          /\ loggedOut' = FALSE
          /\ response' = [route |-> "login", result |-> "redirectHome", user |-> u,
                           key |-> JsNull, presented |-> c]

\* the logout action: destroySession empties the cookie
Logout ==
  /\ UNCHANGED <<notWeb, env, issued, verifies>>
  /\ cookie' = NoCookie
  /\ loggedOut' = TRUE
  /\ response' = [route |-> "logout", result |-> "redirectHome", user |-> NoUser,
                   key |-> JsNull, presented |-> cookie]

\* Supabase stops accepting an access token (it expires)
TokenLapses ==
  /\ UNCHANGED <<notWeb, env, cookie, issued, loggedOut, response>>
  /\ \E t \in verifies : verifies' = verifies \ {t}

\* requireUser(request) in a protected loader or action
ProtectedRequest ==
  /\ UNCHANGED <<notWeb, env, cookie, issued, verifies, loggedOut>>
  /\ \E c \in Cookies :
       LET user == getSupabase(c)
       IN response' = [route |-> "protected",
                       result |-> IF user = NoUser THEN "redirectLogin" ELSE "user",
                       user |-> user, key |-> JsNull, presented |-> c]

\* the action of the sync route; `user` of the response is the user id that
\* syncTransactions was called with, and that call returns or throws
SyncRequest ==
  /\ UNCHANGED <<notWeb, env, cookie, issued, verifies, loggedOut>>
  /\ \E c \in Cookies, key \in KeyInputs :
       IF KeyMatches(key, env.SYNC_KEY)
         THEN IF ~Truthy(env.SINGLE_USER_ID)
                THEN response' = [route |-> "sync", result |-> "error", user |-> NoUser,
                                  key |-> key, presented |-> c]
                ELSE \E res \in {"ok", "error"} :
                       response' = [route |-> "sync", result |-> res,
                                    user |-> env.SINGLE_USER_ID.value,
                                    key |-> key, presented |-> c]
         ELSE LET user == getSupabase(c)
              IN IF user = NoUser
                   THEN response' = [route |-> "sync", result |-> "redirectLogin",
                                     user |-> NoUser, key |-> key, presented |-> c]
                   ELSE \E res \in {"ok", "error"} :
                          response' = [route |-> "sync", result |-> res, user |-> user,
                                       key |-> key, presented |-> c]

NextWeb ==
  \/ Login
  \/ Logout
  \/ TokenLapses
  \/ ProtectedRequest
  \/ SyncRequest

SpecWeb == InitWeb /\ [][NextWeb]_vars

(**************************** linking accounts *******************************)
\* access tokens that itemPublicTokenExchange hands out, in order
LinkTokens == <<"k3", "k4", "k5">>

\* account_id values of accountsGet: of an account that has a row already
\* (p1) and of accounts that have none
LinkAccountIds == {"p1", "p4", "p5"}

\* accountsResponse.data.accounts: no, one or two accounts
AccountLists ==
  {<<>>} \cup { <<p>> : p \in LinkAccountIds }
         \cup { pq \in LinkAccountIds \X LinkAccountIds : pq[1] # pq[2] }

\* account.type
LinkAccountType(p) == IF p = "p5" THEN "credit" ELSE "depository"

\* id uuid DEFAULT uuid_generate_v4(): an id no row has
NewAccountIds == <<"a4", "a5", "a6", "a7", "a8", "a9">>
FreshAccountId(tbl) ==
  NewAccountIds[CHOOSE n \in 1..Len(NewAccountIds) :
                  /\ \A r \in tbl : r.id # NewAccountIds[n]
                  /\ \A m \in 1..(n - 1) : \E r \in tbl : r.id = NewAccountIds[m]]

\* variant of AccountConflict: the table has no unique key
AccountConflictNone(tbl, plaidAccountId) == FALSE

\* plaid_account_id text UNIQUE NOT NULL: the insert is refused when a row
\* has the account id
AccountConflict(tbl, plaidAccountId) ==
  \E a \in tbl : a.plaid_account_id = plaidAccountId

InitLink ==
  /\ IdleStore
  /\ uniqueTxKey = FALSE
  /\ CatIdle
  /\ WebIdle
  /\ LinkIdle
  /\ ManualIdle
  /\ ProcsIdle

notLink ==
  <<transactions, sync_cursors, uniqueTxKey, runVars,
    catVars, webVars, manualResult, procs>>

\* the action of the connect route up to the first insert: a missing form
\* field, itemPublicTokenExchange and accountsGet
StartLink ==
  /\ link.pc = "idle"
  /\ UNCHANGED <<notLink, accountsTbl>>
  /\ \E u \in Users :
       \/ /\ link' = [NoLink EXCEPT !.user = u, !.outcome = "missingFields"]
          /\ UNCHANGED nItems
       \/ /\ link' = [NoLink EXCEPT !.user = u, !.outcome = "error"]
          /\ UNCHANGED nItems
       \/ /\ nItems < MaxItems
          /\ nItems' = nItems + 1
          /\ \/ link' = [NoLink EXCEPT !.user = u,
                                         !.accessToken = LinkTokens[nItems + 1],
                                         !.outcome = "error"]
             \/ \E list \in AccountLists :
                  link' = [pc |-> "inserting", user |-> u,
                           accessToken |-> LinkTokens[nItems + 1],
                           pending |-> list, outcome |-> "none"]

\* one turn of `for (const account of accounts)`: the insert, and the throw
\* when it returns an error
InsertAccount ==
  /\ link.pc = "inserting"
  /\ link.pending # <<>>
  /\ UNCHANGED <<notLink, nItems>>
  /\ LET p == Head(link.pending)
         row == [id |-> FreshAccountId(accountsTbl), user_id |-> link.user,
                 access_token |-> link.accessToken, plaid_account_id |-> p,
                 account_type |-> LinkAccountType(p)]
     IN \/ /\ ~AccountConflict(accountsTbl, p)
           /\ accountsTbl' = accountsTbl \cup {row}
           /\ link' = [link EXCEPT !.pending = Tail(link.pending)]
        \/ /\ accountsTbl' = accountsTbl
           /\ link' = [link EXCEPT !.pc = "idle", !.outcome = "error"]

\* the loop is over: json({ success: true })
FinishLink ==
  /\ link.pc = "inserting"
  /\ link.pending = <<>>
  /\ UNCHANGED <<notLink, nItems, accountsTbl>>
  /\ link' = [link EXCEPT !.pc = "idle", !.outcome = "success"]

NextLink ==
  \/ StartLink
  \/ InsertAccount
  \/ FinishLink

SpecLink == InitLink /\ [][NextLink]_vars

(********************** the transactions page actions ************************)
\* no call of syncTransactions is under way
IdleCall ==
  /\ pc = "idle"
  /\ accounts = {}
  /\ accessTokens = <<>>
  /\ tokIdx = 1
  /\ cursor = NullCursor
  /\ hasMore = FALSE
  /\ resp = NoPage
  /\ phase = "none"
  /\ i = 1
  /\ outcome = "none"
  /\ fault = "none"
  /\ last = NoOp
  /\ applied = [t \in Tokens |-> {}]
  /\ synced = {}
  /\ failedTok = NoTok
  /\ pageStart = NoSnapshot
  /\ requested = {}

IdleRun == log = [t \in Tokens |-> <<>>] /\ IdleCall

\* the rows of two users: a manually entered row and a synced row of u1 and
\* a manually entered row of u2
StoreOfTwo ==
  { ManualRow,
    [id |-> 2, user_id |-> "u1", account_id |-> "a1",
     plaid_transaction_id |-> "t1", date |-> "d1", amount |-> 1,
     category |-> "spending", description |-> "n1"],
    [id |-> 3, user_id |-> "u2", account_id |-> NoAcct,
     plaid_transaction_id |-> NoTx, date |-> "d0", amount |-> 2,
     category |-> "income", description |-> "theirs"] }

\* formData.get(name): null ({}) or the string that was submitted
\* (a string of digits and other characters is kept as its characters)
IdInputs == {{}, {""}, {"1"}, {"3"}}
DateInputs == {{}, {"d9"}}
AmountStrInputs == {{}, {<<>>}, {<<"2">>}, {<<"-", "1">>}, {<<"a">>}, {<<"1", "a">>}}
CategoryInputs2 == {{}, {"savings"}}
DescriptionInputs == {{}, {"edited"}}
Forms ==
  [transactionId : IdInputs, date : DateInputs, amount : AmountStrInputs,
   category : CategoryInputs2, description : DescriptionInputs]

\* !field: null or the empty string
Missing(field) == field = {} \/ field = {""}
MissingAmount(field) == field = {} \/ field = {<<>>}

\* the id column value that the text of transactionId is compared with
RowIdOf(idText) ==
  IF idText = "1" THEN 1 ELSE IF idText = "2" THEN 2 ELSE IF idText = "3" THEN 3 ELSE 0

IsDigit(c) == c \in {"0", "1", "2"}
DigitValue(c) == IF c = "0" THEN 0 ELSE IF c = "1" THEN 1 ELSE 2

\* the longest run of digits that a string starts with
RECURSIVE DigitPrefix(_)
DigitPrefix(str) ==
  IF str = <<>> \/ ~IsDigit(Head(str)) THEN <<>>
  ELSE <<Head(str)>> \o DigitPrefix(Tail(str))

RECURSIVE DecimalValue(_)
DecimalValue(ds) ==
  IF ds = <<>> THEN 0
  ELSE 10 * DecimalValue(SubSeq(ds, 1, Len(ds) - 1)) + DigitValue(ds[Len(ds)])

NaN == {}

\* parseFloat on strings of a sign, digits and letters: the number that the
\* string starts with, NaN when it starts with none; what follows the
\* number is ignored
parseFloat(str) ==
  LET body == IF str # <<>> /\ Head(str) \in {"-", "+"} THEN Tail(str) ELSE str
      ds == DigitPrefix(body)
  IN IF ds = <<>> THEN NaN
     ELSE IF str[1] = "-" THEN {0 - DecimalValue(ds)} ELSE {DecimalValue(ds)}

isNaN(x) == x = NaN

ValueOf(field) == CHOOSE v \in field : TRUE

InitManual ==
  /\ accountsTbl = InitAccounts
  /\ transactions = StoreOfTwo
  /\ sync_cursors = {}
  /\ uniqueTxKey = FALSE
  /\ IdleRun
  /\ CatIdle
  /\ WebIdle
  /\ LinkIdle
  /\ ManualIdle
  /\ ProcsIdle

notManual ==
  <<accountsTbl, sync_cursors, uniqueTxKey, runVars, catVars, webVars, linkVars, procs>>

\* _action === "updateTransaction", for the user that requireUser returned
updateTransaction ==
  /\ UNCHANGED notManual
  /\ \E user \in Users, form \in Forms :
       LET answer(res) == [action |-> "updateTransaction", user |-> user,
                           form |-> form, result |-> res]
       IN IF \/ Missing(form.transactionId) \/ Missing(form.date)
             \/ MissingAmount(form.amount) \/ Missing(form.category)
            THEN /\ manualResult' = answer("error")
                 /\ UNCHANGED transactions
          ELSE LET amount == parseFloat(ValueOf(form.amount))
               IN IF isNaN(amount)
                    THEN /\ manualResult' = answer("error")
                         /\ UNCHANGED transactions
                    ELSE \/ /\ manualResult' = answer("error")
                            /\ UNCHANGED transactions
                         \/ /\ manualResult' = answer("redirect")
                            /\ transactions' =
                                 { IF /\ r.id = RowIdOf(ValueOf(form.transactionId))
                                      /\ r.user_id = user
                                     THEN [r EXCEPT
                                             !.date = ValueOf(form.date),
                                             !.amount = ValueOf(amount),
                                             !.category = ValueOf(form.category),
                                             !.description =
                                               IF Missing(form.description) THEN ""
                                               ELSE ValueOf(form.description)]
                                     ELSE r : r \in transactions }

\* _action === "deleteTransaction"
deleteTransaction ==
  /\ UNCHANGED notManual
  /\ \E user \in Users, id \in IdInputs :
       LET answer(res) == [action |-> "deleteTransaction", user |-> user,
                           form |-> [NoForm EXCEPT !.transactionId = id],
                           result |-> res]
       IN IF Missing(id)
            THEN /\ manualResult' = answer("error")
                 /\ UNCHANGED transactions
            ELSE \/ /\ manualResult' = answer("error")
                    /\ UNCHANGED transactions
                 \/ /\ manualResult' = answer("redirect")
                    /\ transactions' =
                         { r \in transactions :
                             ~(r.id = RowIdOf(ValueOf(id)) /\ r.user_id = user) }

NextManual ==
  \/ updateTransaction
  \/ deleteTransaction

SpecManual == InitManual /\ [][NextManual]_vars

(************************ runs that overlap in time **************************)
\* Two runs at once: two calls of syncTransactions (the route may be
\* requested while a call is under way), or one worker per access token.
\* The provider has published its pages before the runs start.
ProcIds == {1, 2}

\* what a run iterates over: the user's tokens as the code orders them, the
\* same in reverse, one token only, or nothing
PlanPairs ==
  { <<"all", "none">>, <<"reversed", "none">>, <<"k1", "k2">>, <<"all", "all">> }

Reverse(seq) == [ j \in 1..Len(seq) |-> seq[Len(seq) + 1 - j] ]

PlanTokens(plan, accts) ==
  IF plan = "all" THEN Dedupe(TokensOfRows(accts))
  ELSE IF plan = "reversed" THEN Reverse(Dedupe(TokensOfRows(accts)))
  ELSE IF plan = "none" THEN <<>>
  ELSE <<plan>>

\* the page sequences a token's log may hold: has_more on all but the last
RECURSIVE LogsOfLength(_, _)
LogsOfLength(tok, n) ==
  IF n = 0 THEN {<<>>}
  ELSE UNION { { Append(pages, page) : page \in NewPages(tok, pages) } :
                 pages \in LogsOfLength(tok, n - 1) }

PublishedLogs(tok) ==
  { pages \in UNION { LogsOfLength(tok, n) : n \in 0..PagesOf(tok) } :
      \A j \in 1..Len(pages) : pages[j].has_more = (j < Len(pages)) }

\* transactionsSync when the provider publishes nothing new
PublishedResponse(pages, cur) ==
  IF cur < Len(pages) THEN pages[cur + 1] ELSE CaughtUp(cur)

NewProc(plan) ==
  [plan |-> plan, pc |-> "start", accounts |-> {}, accessTokens |-> <<>>,
   tokIdx |-> 1, cursor |-> NullCursor, resp |-> NoPage, phase |-> "none",
   i |-> 1, overlapped |-> FALSE]

InitOverlap ==
  /\ accountsTbl = InitAccounts
  /\ transactions = {ManualRow}
  /\ sync_cursors = {}
  /\ uniqueTxKey \in BOOLEAN
  /\ \E l1 \in PublishedLogs("k1"), l2 \in PublishedLogs("k2") :
       log = [t \in Tokens |-> IF t = "k1" THEN l1 ELSE l2]
  /\ IdleCall
  /\ CatIdle
  /\ WebIdle
  /\ LinkIdle
  /\ ManualIdle
  /\ \E pair \in PlanPairs : procs = <<NewProc(pair[1]), NewProc(pair[2])>>

notOverlap ==
  <<accountsTbl, uniqueTxKey, log, pc, locals, outcome, fault, last, applied,
    synced, failedTok, pageStart, requested, catVars, webVars, linkVars,
    manualResult>>

\* the run is between its first and its last step
Running(pr) == pr.pc \notin {"start", "done", "failed"}

\* history: the step of run p is taken while the other run is under way
Step(p, pr) ==
  procs' = [procs EXCEPT ![p] =
              [pr EXCEPT !.overlapped = @ \/ \E q \in ProcIds \ {p} : Running(procs[q])]]

procTok(pr) == pr.accessTokens[pr.tokIdx]

\* the loops of one page, on the locals of a run (see Continue)
Advance(pr, page, ph, idx) ==
  LET np == NextPos(page, ph, idx)
  IN IF np.phase # "end"
       THEN [pr EXCEPT !.pc = "apply", !.resp = page, !.phase = np.phase, !.i = np.i]
       ELSE [pr EXCEPT !.cursor = page.next_cursor,
                       !.pc = IF page.has_more THEN "fetch" ELSE "persist",
                       !.resp = NoPage, !.phase = "none", !.i = 1]

\* the table after the record at (ph, idx) of the page is applied
ApplyOne(tbl, page, accts, tok, ph, idx) ==
  IF ph = "removed"
    THEN DeleteTx(tbl, page.removed[idx], AccountIdsOf(accts, tok))
  ELSE LET tx == PlaidTx(IF ph = "added" THEN page.added[idx] ELSE page.modified[idx])
           found == FindAccount(accts, tx.account_id)
       IN IF found = {} THEN tbl
          ELSE IF ph = "added" THEN InsertTx(tbl, tx, CHOOSE a \in found : TRUE)
          ELSE UpdateTx(tbl, tx, CHOOSE a \in found : TRUE)

\* lines 143-150 for one run
ProcStart(p) ==
  /\ procs[p].pc = "start"
  /\ UNCHANGED <<notOverlap, transactions, sync_cursors>>
  /\ LET accts == { a \in accountsTbl : a.user_id = UserId }
         toks == PlanTokens(procs[p].plan, accts)
     IN Step(p, [procs[p] EXCEPT !.accounts = accts, !.accessTokens = toks,
                                 !.pc = IF toks = <<>> THEN "done" ELSE "readCursor"])

\* lines 155-161 for one run
ProcReadCursor(p) ==
  /\ procs[p].pc = "readCursor"
  /\ UNCHANGED <<notOverlap, transactions, sync_cursors>>
  /\ Step(p, [procs[p] EXCEPT !.cursor = ReadCursorOf(sync_cursors, procTok(procs[p])),
                              !.pc = "fetch"])

\* lines 165-171 for one run
ProcFetchPage(p) ==
  /\ procs[p].pc = "fetch"
  /\ UNCHANGED <<notOverlap, transactions, sync_cursors>>
  /\ LET pr == procs[p]
         page == PublishedResponse(log[procTok(pr)], pr.cursor)
     IN Step(p, Advance(pr, page, "added", 1))

\* lines 173-214 for one run: one record of the page
ProcApply(p) ==
  /\ procs[p].pc = "apply"
  /\ UNCHANGED <<notOverlap, sync_cursors>>
  /\ LET pr == procs[p]
         refused ==
           /\ pr.phase = "added"
           /\ LET tx == PlaidTx(pr.resp.added[pr.i])
              IN \E a \in FindAccount(pr.accounts, tx.account_id) :
                   UniqueViolation(transactions, tx, a)
     IN IF refused
          THEN /\ UNCHANGED transactions
               /\ Step(p, [pr EXCEPT !.pc = "failed"])
          ELSE /\ transactions' = ApplyOne(transactions, pr.resp, pr.accounts,
                                           procTok(pr), pr.phase, pr.i)
               /\ Step(p, Advance(pr, pr.resp, pr.phase, pr.i + 1))

\* lines 218-225 for one run
ProcPersistCursor(p) ==
  /\ procs[p].pc = "persist"
  /\ UNCHANGED <<notOverlap, transactions>>
  /\ LET pr == procs[p]
     IN /\ sync_cursors' = UpsertCursor(sync_cursors, procTok(pr), pr.cursor)
        /\ Step(p, IF pr.tokIdx = Len(pr.accessTokens)
                     THEN [pr EXCEPT !.pc = "done"]
                     ELSE [pr EXCEPT !.tokIdx = @ + 1, !.pc = "readCursor"])

NextOverlap ==
  \E p \in ProcIds :
    \/ ProcStart(p)
    \/ ProcReadCursor(p)
    \/ ProcFetchPage(p)
    \/ ProcApply(p)
    \/ ProcPersistCursor(p)

SpecOverlap == InitOverlap /\ [][NextOverlap]_vars

(****************************** properties ***********************************)
\* the cursor values stored for a token
Persisted(tbl, tok) ==
  { r.cursor : r \in { q \in tbl : q.user_id = UserId /\ q.access_token = tok } }

\* the token an account row belongs to
TokenOfAccount(accountId) ==
  { a.access_token : a \in { b \in accountsTbl : b.id = accountId } }

\* a step in which the running call throws
Throws == pc # "idle" /\ outcome' \in Errors

\* C1: the stored cursor of a token is written only by the step after the
\* paging loop has ended with has_more = false, with the next cursor of the
\* last page; a step in which the provider call or a database write fails
\* leaves the stored cursors as they were.
C1_CursorWrittenOnlyAfterLastPage ==
  [][ /\ \A t \in Tokens :
           Persisted(sync_cursors', t) # Persisted(sync_cursors, t)
             => /\ pc = "persist"
                /\ ~hasMore
                /\ resp = NoPage
                /\ t = accessTokens[tokIdx]
                /\ fault' = "none"
                /\ Persisted(sync_cursors', t) = {cursor}
      /\ Throws => sync_cursors' = sync_cursors ]_vars

\* C1 witness: a call failed on a token after a page of that token had been
\* applied, and the token still has no stored cursor
C1_Witness ==
  /\ outcome \in {"ProviderError", "StorageError"}
  /\ failedTok # NoTok
  /\ applied[failedTok] # {}
  /\ Persisted(sync_cursors, failedTok) = {}

\* the step applies record i of the added loop (resp. modified loop) and the
\* record's account is one of the user's accounts
AppliesResolved(ph) ==
  /\ pc = "apply"
  /\ phase = ph
  /\ \E a \in accounts :
       a.plaid_account_id = PlaidTx(IF ph = "added" THEN resp.added[i] ELSE resp.modified[i]).account_id

\* the external call of the step neither failed for a reason of its own nor
\* did the process die
NoOutage == fault' # "dbWrite" /\ outcome' # "crashed"

\* rows of the table for an external transaction id under a provider account
RowsFor(tbl, txId, plaidAccountId) ==
  { r \in tbl : /\ r.plaid_transaction_id = txId
                /\ \E a \in accountsTbl : a.id = r.account_id /\ a.plaid_account_id = plaidAccountId }

\* C2: when a page that an earlier run had applied in full is received again
\* (the cursor was not stored), applying one of its added records does not
\* fail and leaves exactly one row for the record's transaction id.
C2_RedeliveredAddedLeavesOneRow ==
  [][ ( /\ AppliesResolved("added")
        /\ resp.next_cursor \in applied[accessTokens[tokIdx]]
        /\ NoOutage )
      => /\ outcome' = "running"
         /\ Cardinality(RowsFor(transactions', PlaidTx(resp.added[i]).transaction_id,
                                PlaidTx(resp.added[i]).account_id)) = 1 ]_vars

\* the row r carries the values of the provider record tx
CarriesValues(r, tx) ==
  /\ r.date = tx.date
  /\ r.amount = tx.amount
  /\ r.description = tx.name
  /\ \E a \in accountsTbl :
       a.id = r.account_id /\ r.category = determineCategory(tx, a.account_type)

\* C3: after an added or modified record with a local account has been
\* applied there is exactly one row with its transaction id, carrying the
\* record's date, amount, category and description.
C3_UpsertLeavesOneCurrentRow ==
  [][ \A ph \in {"added", "modified"} :
        ( AppliesResolved(ph) /\ NoOutage )
        => LET tx == PlaidTx(IF ph = "added" THEN resp.added[i] ELSE resp.modified[i])
               rows == RowsFor(transactions', tx.transaction_id, tx.account_id)
           IN /\ outcome' = "running"
              /\ Cardinality(rows) = 1
              /\ \A r \in rows : CarriesValues(r, tx) ]_vars

\* C4: when the call has ended because one token failed, every other token
\* of the user has been synced by that call.
C4_OtherTokensStillSynced ==
  (pc = "idle" /\ outcome \in {"ProviderError", "StorageError"})
    => \A a \in accountsTbl :
         a.user_id = UserId /\ a.access_token # failedTok => a.access_token \in synced

\* C5: a call whose account read succeeded never ends by throwing to its
\* caller.
C5_NeverThrowsAfterAccountRead ==
  outcome \notin {"ProviderError", "StorageError"}

\* C6: when the account read fails the call ends at once with the
\* account-lookup error: no provider call follows and no row of
\* transactions or sync_cursors is touched.
C6_AccountReadFailureIsFatal ==
  [][ fault' = "accountsRead"
      => /\ pc' = "idle"
         /\ outcome' = "AccountLookupError"
         /\ transactions' = transactions
         /\ sync_cursors' = sync_cursors
         /\ log' = log
         /\ resp' = resp ]_vars

\* C6 witness: the account read failed while rows and a cursor were stored
C6_Witness ==
  /\ fault = "accountsRead"
  /\ outcome = "AccountLookupError"
  /\ sync_cursors # {}
  /\ Cardinality(transactions) > 1

\* rows of the table before the step that the step removed
RemovedRows == { r \in transactions : \A q \in transactions' : q.id # r.id }

\* C7: the only rows a sync step removes are rows of the removed record's
\* transaction id under an account of the token being synced.
C7_DeleteScopedToToken ==
  [][ \A r \in RemovedRows :
        /\ pc = "apply"
        /\ phase = "removed"
        /\ r.plaid_transaction_id = resp.removed[i]
        /\ TokenOfAccount(r.account_id) = {accessTokens[tokIdx]} ]_vars

\* C7 witness: a removed record deleted a row while a row with the same
\* transaction id under another token's account stays in the table
C7_Witness ==
  /\ last.op = "delete"
  /\ last.n > 0
  /\ \E r \in transactions :
       /\ r.plaid_transaction_id = last.tx
       /\ TokenOfAccount(r.account_id) # {last.tok}
       /\ TokenOfAccount(r.account_id) # {}

\* the step applies a removed record that has no row under the token
RemovesAbsent ==
  /\ pc = "apply"
  /\ phase = "removed"
  /\ \A r \in transactions :
       r.plaid_transaction_id = resp.removed[i]
         => TokenOfAccount(r.account_id) # {accessTokens[tokIdx]}

\* C8: a removed record without a row is no error and changes no row, and
\* after any removed record a second delete of it would change nothing.
C8_RemoveAbsentIsNoOp ==
  [][ /\ (RemovesAbsent /\ NoOutage)
          => /\ transactions' = transactions
             /\ outcome' = "running"
             /\ pc' \in {"apply", "fetch", "persist"}
      /\ (pc = "apply" /\ phase = "removed" /\ outcome' = "running")
          => \A r \in transactions' :
               r.plaid_transaction_id = resp.removed[i]
                 => TokenOfAccount(r.account_id) # {accessTokens[tokIdx]} ]_vars

\* C8 witness: a removed record was applied and hit no row
C8_Witness == last.op = "delete" /\ last.n = 0 /\ outcome = "running"

\* the step meets an added or modified record of an account that is not
\* among the user's accounts
MeetsUnmatched ==
  /\ pc = "apply"
  /\ phase \in {"added", "modified"}
  /\ \A a \in accounts :
       a.plaid_account_id # PlaidTx(IF phase = "added" THEN resp.added[i] ELSE resp.modified[i]).account_id

\* C9: a record of an unknown account is passed over: no row is written, the
\* call does not fail, and the loop goes on with the record after it or, at
\* the end of the page, with the next page or the cursor write.
C9_UnmatchedAccountSkipped ==
  [][ (MeetsUnmatched /\ outcome' # "crashed")
      => /\ transactions' = transactions
         /\ outcome' = "running"
         /\ LET np == NextPos(resp, phase, i + 1)
            IN IF np.phase = "end"
                 THEN pc' = (IF resp.has_more THEN "fetch" ELSE "persist")
                 ELSE pc' = "apply" /\ resp' = resp /\ phase' = np.phase /\ i' = np.i ]_vars

\* C9 witness: a record was skipped and a later record of the same page wrote
\* a row
C9_Witness ==
  /\ last.op = "insert"
  /\ \E t \in Tokens : \E p \in SeqRange(log[t]) :
       /\ Len(p.added) = 2
       /\ PlaidTx(p.added[1]).account_id = "px"
       /\ PlaidTx(p.added[2]).transaction_id = last.tx
       /\ t = last.tok

\* C10: every stored cursor lies at or before the pages applied in full: all
\* pages up to the stored position have been applied by some run.
C10_CursorNeverPastUnapplied ==
  \A t \in Tokens : \A c \in Persisted(sync_cursors, t) :
    \A p \in 1..c : p \in applied[t]

\* C10 witness: the process died with a cursor stored while a later page had
\* been received and not applied in full
C10_Witness ==
  /\ outcome = "crashed"
  /\ \E t \in Tokens : \E c \in Persisted(sync_cursors, t) :
       /\ c >= 1
       /\ Len(log[t]) > c
       /\ (c + 1) \notin applied[t]

\* C11: when a database write fails for a record of a page, the call ends
\* with the storage error, no cursor is stored, and the transactions table is
\* as it was when the page was received: no write of an earlier record of
\* the page remains.
C11_FailedWriteLeavesNoPartialPage ==
  [][ (pc = "apply" /\ fault' \in {"dbWrite", "uniqueViolation"})
      => /\ pc' = "idle"
         /\ outcome' = "StorageError"
         /\ sync_cursors' = sync_cursors
         /\ transactions' = pageStart ]_vars

\* the labels of the record given to determineCategory
CatLabels == UNION { SeqRange(labels) : labels \in catTx.category }

\* the labels of CategoryInputs that have the word Transfer in them
HasTransferInIt(label) == label \in {"Transfer", "Wire Transfer"}

KnownTypes == {"depository", "investment", "credit"}

\* C12 as stated: a record with a label that has "Transfer" in it is
\* classified 'transfer', whatever the amount and the account type.
C12_LabelContainingTransfer ==
  (catResult # "none" /\ \E l \in CatLabels : HasTransferInIt(l))
    => catResult = "transfer"

\* C12 amended: a record one of whose labels is exactly "Transfer" is
\* classified 'transfer', whatever the amount and the account type, known or
\* not; a record without such a label is never classified 'transfer'.
C12_TransferLabelWins ==
  catResult # "none" => (catResult = "transfer" <=> "Transfer" \in CatLabels)

\* C12 witness: a transfer on an unknown account type with a negative amount
C12_Witness ==
  /\ catResult = "transfer"
  /\ catType \notin KnownTypes
  /\ catTx.amount < 0

\* C13: without the label "Transfer", a depository or investment account
\* gives 'income' for a positive amount and 'spending' otherwise, and a
\* credit account gives 'spending' for a positive amount and 'income'
\* otherwise.
C13_SignReadByAccountType ==
  (catResult # "none" /\ "Transfer" \notin CatLabels)
    => /\ catType \in {"depository", "investment"}
            => catResult = (IF catTx.amount > 0 THEN "income" ELSE "spending")
       /\ catType = "credit"
            => catResult = (IF catTx.amount > 0 THEN "spending" ELSE "income")

\* C13 witness: a zero amount on a credit account was classified 'income'
C13_Witness ==
  /\ catResult = "income"
  /\ catType = "credit"
  /\ catTx.amount = 0

\* C14: without the label "Transfer" and with an account type other than
\* depository, investment and credit the result is 'spending' for every
\* amount; every result is one of 'income', 'spending', 'transfer'.
C14_UnknownTypeIsSpending ==
  catResult # "none"
    => /\ catResult \in {"income", "spending", "transfer"}
       /\ ("Transfer" \notin CatLabels /\ catType \notin KnownTypes)
            => catResult = "spending"

\* C14 witness: a positive amount on an unknown account type was classified
\* 'spending'
C14_Witness ==
  /\ catResult = "spending"
  /\ catType \notin KnownTypes
  /\ catTx.amount > 0

\* the running iteration holds the cursor that is stored for its token, and
\* that cursor is not the null cursor
HoldsStoredCursor ==
  /\ cursor # NullCursor
  /\ Persisted(sync_cursors, accessTokens[tokIdx]) = {cursor}

\* C15: with an advanced cursor stored, a provider response without records
\* and with has_more = false changes no row of transactions and no stored
\* cursor: the fetch writes nothing and keeps the cursor, and the cursor
\* write that follows stores the value that is stored already. A second run
\* meets the same store and does the same.
C15_EmptyDeltaChangesNothing ==
  [][ /\ ( /\ pc = "fetch"
            /\ HoldsStoredCursor
            /\ fault' = "none"
            /\ pc' = "persist" )
          => /\ transactions' = transactions
             /\ sync_cursors' = sync_cursors
             /\ cursor' = cursor
             /\ ~hasMore'
      /\ ( /\ pc = "persist"
            /\ HoldsStoredCursor
            /\ NoOutage )
          => /\ transactions' = transactions
             /\ sync_cursors' = sync_cursors
             /\ outcome' \in {"running", "ok"} ]_vars

\* C15 witness: the second token of a run is about to store its cursor after
\* an empty response, the first token having stored its own
C15_Witness ==
  /\ pc = "persist"
  /\ last = NoOp
  /\ HoldsStoredCursor
  /\ Len(log[accessTokens[tokIdx]]) = cursor
  /\ tokIdx = 2
  /\ synced = {accessTokens[1]}

\* the cursor a run has to start from for a token: the stored one, the null
\* cursor when none is stored
StoredOrNull(tok) ==
  IF Persisted(sync_cursors, tok) = {} THEN {NullCursor} ELSE Persisted(sync_cursors, tok)

\* the requests the call has sent for a token
RequestsOf(reqs, tok) == { q \in reqs : q[1] = tok }

C17_OneCursorPerCredential ==
  \A t \in Tokens :
    Cardinality({ r \in sync_cursors : r.user_id = UserId /\ r.access_token = t }) <= 1

\* C17 witness: a stored cursor was replaced: the token's first page ended a
\* run (has_more = false) and the stored cursor stands behind a later page
C17_Witness ==
  \E t \in Tokens :
    /\ Len(log[t]) >= 2
    /\ ~log[t][1].has_more
    /\ \E r \in sync_cursors : r.access_token = t /\ r.cursor >= 2

\* the manually entered rows of a table
ManualRows(tbl) == { r \in tbl : r.plaid_transaction_id = NoTx }

\* C18: no step of a sync run adds, changes or removes a manually entered
\* row.
C18_ManualRowsUntouched ==
  [][ ManualRows(transactions') = ManualRows(transactions) ]_vars

\* C18 witness: the manual row stands while a sync step updated or deleted a
\* provider row
C18_Witness ==
  /\ last.op \in {"update", "delete"}
  /\ last.n >= 1
  /\ ManualRow \in transactions

AppliesLastRecord ==
  /\ pc = "apply"
  /\ \/ phase = "removed" /\ i = Len(resp.removed)
     \/ phase = "modified" /\ i = Len(resp.modified) /\ resp.removed = <<>>
     \/ phase = "added" /\ i = Len(resp.added) /\ resp.modified = <<>>
                         /\ resp.removed = <<>>

\* C20: a request is sent only while no page is being applied and carries
\* the cursor in hand; a page received is applied record by record with the
\* cursor unchanged; the step that applies its last record takes the page's
\* next cursor and goes on to another request exactly when the page had
\* has_more = true.
C20_PagingIsSequential ==
  [][ /\ (pc = "fetch" /\ outcome' = "running")
          => /\ resp = NoPage
             /\ requested' = requested \cup {<<accessTokens[tokIdx], cursor>>}
             /\ pc' = "apply" => cursor' = cursor
      /\ (pc = "apply" /\ outcome' = "running")
          => IF AppliesLastRecord
               THEN /\ cursor' = resp.next_cursor
                    /\ pc' = (IF resp.has_more THEN "fetch" ELSE "persist")
                    /\ hasMore' = resp.has_more
               ELSE /\ pc' = "apply"
                    /\ resp' = resp
                    /\ cursor' = cursor
      /\ (pc' = "fetch" /\ pc # "fetch")
          => \/ pc = "readCursor"
             \/ AppliesLastRecord /\ resp.has_more ]_vars

\* C20 witness: the second request of a token was sent with the next cursor
\* of its first page
C20_Witness ==
  \E t \in Tokens :
    /\ Len(log[t]) >= 2
    /\ log[t][1].has_more
    /\ <<t, NullCursor>> \in requested
    /\ <<t, log[t][1].next_cursor>> \in requested

\* the distinct access tokens of the user's account rows
UserTokens == { a.access_token : a \in { b \in accountsTbl : b.user_id = UserId } }

\* C21: a call starts the iteration of a token only if it has neither sent a
\* request nor stored a cursor for that token before, it stores a cursor only
\* for a token it has not stored one for, and a call that returns without
\* error has stored the cursor of every distinct token of the user, each
\* once, also when several account rows carry the same token.
C21_EachCredentialOncePerCall ==
  [][ /\ (pc = "readCursor" /\ outcome' # "crashed")
          => /\ accessTokens[tokIdx] \notin synced
             /\ RequestsOf(requested, accessTokens[tokIdx]) = {}
      /\ (pc = "persist" /\ fault' = "none" /\ outcome' # "crashed")
          => /\ accessTokens[tokIdx] \notin synced
             /\ synced' = synced \cup {accessTokens[tokIdx]}
      /\ (pc = "persist" /\ outcome' = "ok")
          => /\ synced' = UserTokens
             /\ Len(accessTokens) = Cardinality(UserTokens) ]_vars

\* C21 witness: a call over three account rows, two of them with the same
\* token, has returned with both tokens synced
C21_Witness ==
  /\ pc = "idle"
  /\ outcome = "ok"
  /\ synced = {"k1", "k2"}
  /\ Cardinality({ a \in accountsTbl : a.access_token = "k1" }) = 2

\* C25: a cursor read that fails ends the call with the storage error; the
\* run does not go on to a request with the null cursor.
C25_CursorReadFailureStopsRun ==
  [][ fault' = "cursorRead"
      => /\ pc' = "idle"
         /\ outcome' = "StorageError" ]_vars

\* C26: every row that a step of the added or the modified loop writes or
\* changes lies under an account of the token being synced.
C26_WritesStayUnderOwnAccounts ==
  [][ (pc = "apply" /\ phase \in {"added", "modified"})
      => \A r \in transactions' \ transactions :
           TokenOfAccount(r.account_id) = {accessTokens[tokIdx]} ]_vars

\* C22: the iteration of every token that a call starts comes to its end:
\* the cursor of the token is stored, unless a provider or storage call
\* fails or the process dies; and every call that starts ends.
C22_RunTerminates ==
  /\ \A t \in Tokens :
       (pc = "fetch" /\ accessTokens[tokIdx] = t)
         ~> (t \in synced \/ outcome \in Errors \/ outcome = "crashed")
  /\ (pc # "idle") ~> (pc = "idle")

\* C22 witness: a call has returned after a token needed two pages
C22_Witness ==
  /\ pc = "idle"
  /\ outcome = "ok"
  /\ \E t \in synced : Len(log[t]) >= 2 /\ log[t][1].has_more
                        /\ Persisted(sync_cursors, t) = {2}

\* the step is a request to the given route
Answers(route) == response' # response /\ response'.route = route

\* C28: the sync route calls syncTransactions only for a request whose key
\* parameter equals the configured SYNC_KEY, and then for the configured
\* SINGLE_USER_ID, or for a request whose session token verifies, and then
\* for the user of the token; with a matching key and no SINGLE_USER_ID the
\* request fails without a sync; with neither a matching key nor a valid
\* session the request is redirected to the login page without a sync.
C28_SyncRouteGuarded ==
  [][ Answers("sync")
      => LET r == response'
             byKey == r.key.kind = "string" /\ r.key = env.SYNC_KEY
             idSet == env.SINGLE_USER_ID.kind = "string" /\ env.SINGLE_USER_ID.value # ""
             bySession == /\ r.presented.signed
                          /\ r.presented.access_token \in issued
                          /\ r.presented.access_token \in verifies
         IN /\ r.user # NoUser
                 => \/ byKey /\ idSet /\ r.user = env.SINGLE_USER_ID.value
                    \/ ~byKey /\ bySession /\ r.user = r.presented.access_token.user
            /\ (byKey /\ ~idSet) => (r.result = "error" /\ r.user = NoUser)
            /\ (~byKey /\ ~bySession) => (r.result = "redirectLogin" /\ r.user = NoUser)
            /\ r.result = "ok" => r.user # NoUser ]_vars

\* C28 witness: a request without a key parameter was redirected to the login
\* page while SYNC_KEY is not configured
C28_Witness ==
  /\ response.route = "sync"
  /\ response.key = JsNull
  /\ env.SYNC_KEY = Undefined
  /\ env.SINGLE_USER_ID = Str("u1")
  /\ response.result = "redirectLogin"

\* C29: requireUser returns a user only for a signed cookie whose access
\* token a login has stored and which verifies; the logout action leaves a
\* cookie without a token and, until a login succeeds, every protected
\* request with the browser's cookie is redirected to the login page; a
\* login that fails stores no token.
C29_SessionLifecycle ==
  [][ /\ (Answers("protected") /\ response'.result = "user")
          => /\ response'.presented.signed
             /\ response'.presented.access_token \in issued
             /\ response'.presented.access_token \in verifies
             /\ response'.user = response'.presented.access_token.user
      /\ (Answers("protected") /\ loggedOut /\ response'.presented = cookie)
          => response'.result = "redirectLogin"
      /\ Answers("logout") => cookie'.access_token = NoToken /\ loggedOut'
      /\ (loggedOut /\ ~loggedOut')
          => Answers("login") /\ response'.result = "redirectHome"
      /\ (Answers("login") /\ response'.result = "error")
          => cookie' = cookie /\ issued' = issued ]_vars

\* C29 witness: after a login and a logout a protected request with the
\* browser's cookie was redirected while the token of the login still
\* verifies
C29_Witness ==
  /\ loggedOut
  /\ response.route = "protected"
  /\ response.presented = cookie
  /\ response.result = "redirectLogin"
  /\ verifies # {}

\* C27: whatever account-link actions have run, and wherever one of them
\* stopped, no two rows of the accounts table have the same plaid_account_id
\* or the same id, the rows of one access token belong to one user, and
\* looking a row up by plaid_account_id finds at most one row.
C27_AccountRowsUnambiguous ==
  /\ \A a, b \in accountsTbl :
       /\ a.plaid_account_id = b.plaid_account_id => a = b
       /\ a.id = b.id => a = b
       /\ a.access_token = b.access_token => a.user_id = b.user_id
  /\ \A p \in LinkAccountIds \cup {"p2", "p3"} :
       Cardinality(FindAccount(accountsTbl, p)) <= 1

\* C27 witness: a link stopped at an account that has a row already, after
\* it had inserted a row of its own, and an earlier link is complete
C27_Witness ==
  /\ link.pc = "idle"
  /\ link.outcome = "error"
  /\ link.pending # <<>>
  /\ AccountConflict(accountsTbl, Head(link.pending))
  /\ \E a \in accountsTbl : a.access_token = link.accessToken
  /\ \E a \in accountsTbl : a.access_token \notin {link.accessToken, "k1", "k2"}

\* a string that is a number: an optional sign and digits, nothing else
IsNumeral(str) ==
  LET body == IF str # <<>> /\ Head(str) \in {"-", "+"} THEN Tail(str) ELSE str
  IN body # <<>> /\ \A k \in 1..Len(body) : IsDigit(body[k])

\* the request answered last lacks a required field or has an amount that
\* is not a number
InvalidRequest(m) ==
  \/ m.action \in {"updateTransaction", "deleteTransaction"}
       /\ Missing(m.form.transactionId)
  \/ /\ m.action = "updateTransaction"
     /\ \/ Missing(m.form.date)
        \/ MissingAmount(m.form.amount)
        \/ Missing(m.form.category)
        \/ ~IsNumeral(ValueOf(m.form.amount))

\* the scope of the two actions alone: a step changes or removes only a row
\* whose id is the submitted transactionId and whose user_id is the
\* authenticated user; rows of other users stay as they are.
OnlyOwnRowOfThatId ==
  [][ LET m == manualResult'
      IN \A r \in transactions \ transactions' :
           /\ r.user_id = m.user
           /\ ~Missing(m.form.transactionId)
           /\ r.id = RowIdOf(ValueOf(m.form.transactionId)) ]_vars

\* C30: updateTransaction and deleteTransaction change or remove only the
\* row with the submitted id of the authenticated user, and a request with
\* a missing field or an amount that is not a number gets an error result
\* and leaves the store unchanged.
C30_InvalidRequestChangesNothing ==
  [][ LET m == manualResult'
      IN /\ \A r \in transactions \ transactions' :
              /\ r.user_id = m.user
              /\ ~Missing(m.form.transactionId)
              /\ r.id = RowIdOf(ValueOf(m.form.transactionId))
         /\ InvalidRequest(m) => (m.result = "error" /\ transactions' = transactions) ]_vars

\* a row without its generated id
Content(r) == [r EXCEPT !.id = 0]

\* the two tables hold the same rows, up to the generated ids
SameRows(tbl, other) ==
  \A c \in { Content(r) : r \in tbl \cup other } :
    Cardinality({ r \in tbl : Content(r) = c })
      = Cardinality({ r \in other : Content(r) = c })

\* the table after the pages from position n on are applied in order
RECURSIVE ApplyRecords(_, _, _, _, _, _)
ApplyRecords(tbl, page, accts, tok, ph, idx) ==
  LET np == NextPos(page, ph, idx)
  IN IF np.phase = "end" THEN tbl
     ELSE ApplyRecords(ApplyOne(tbl, page, accts, tok, np.phase, np.i),
                       page, accts, tok, np.phase, np.i + 1)

RECURSIVE ApplyPages(_, _, _, _, _)
ApplyPages(tbl, pages, accts, tok, n) ==
  IF n > Len(pages) THEN tbl
  ELSE ApplyPages(ApplyRecords(tbl, pages[n], accts, tok, "added", 1),
                  pages, accts, tok, n + 1)

\* the result of syncing k1 to its end and then k2, from the initial store
SequentialStore ==
  LET accts == { a \in accountsTbl : a.user_id = UserId }
  IN ApplyPages(ApplyPages({ManualRow}, log["k1"], accts, "k1", 1),
                log["k2"], accts, "k2", 1)

SequentialCursors ==
  { [user_id |-> UserId, access_token |-> t, cursor |-> Len(log[t])] : t \in Tokens }

AllDone2 == Len(procs) = 2 /\ \A p \in ProcIds : procs[p].pc = "done"

PlanPair == <<procs[1].plan, procs[2].plan>>

C24_OverlapKeepsRowsAndCursor ==
  /\ [](PlanPair = <<"all", "all">>
          => \A r, q \in transactions :
               (/\ r.plaid_transaction_id # NoTx
                /\ r.plaid_transaction_id = q.plaid_transaction_id
                /\ TokenOfAccount(r.account_id) = TokenOfAccount(q.account_id))
                 => r = q)
  /\ [][ \A t \in Tokens : \A c \in Persisted(sync_cursors, t) :
            \A d \in Persisted(sync_cursors', t) : d >= c ]_vars

====
